---- MODULE Spec2Model ----
(***************************************************************************)
(* Model of grunt-tizen: the task orchestrator (tasks-maker, in its        *)
(* promise form and in its callback form) driving the Bridge.              *)
(*                                                                         *)
(* One tizenTask request is followed from the call to the moment its       *)
(* completion is signalled to the caller.  Remote operations are           *)
(* suspension points: each has one action that starts it (inside the       *)
(* handler that calls it) and one action for its completion, whose         *)
(* outcome is chosen nondeterministically.                                 *)
(***************************************************************************)
EXTENDS Integers, Sequences, FiniteSets, TLC

\* ------------------------------------------------------------------ bounds
\* largest file list resolved by the File Lister / listRemoteFiles
MaxFiles == 2

\* longest path, in characters, handed to getDestination on its own
MaxPathLen == 3

\* longest command output, in phrases, handed to a classifier on its own
MaxOutputLen == 2

\* longest output of the remote ls, in characters
MaxLsLen == 3

\* most getMeta() calls made on one TizenConfig object
MaxCalls == 3

\* longest browser command template, in pieces, handed to runBrowser
MaxTemplateLen == 2

\* ------------------------------------------------------------- vocabulary
Impls == {"promise", "callback"}

\* the actions the orchestrator documents
KnownActions == {"push", "install", "uninstall", "script", "start", "stop", "debug"}

\* values a caller may put in data.action; "none" is a missing/null action
ActionValues == KnownActions \cup {"watch", "bogus", "none"}

\* data.asRoot as supplied by the caller
AsRootValues == {"true", "false", "absent"}

\* request fields whose presence the commands test
Fields == {"localFiles", "remoteDir", "remoteFiles", "remoteScript"}

\* data.overwrite as supplied by the caller (push)
OverwriteValues == {"true", "false", "absent"}

\* data.localPort as supplied by the caller (debug); 0 is an absent port
LocalPortValues == {0, 9000}

\* data.args as supplied by the caller (script); absent is the empty list
ArgsValues == {<<>>, <<"x">>}

\* the field each action requires, and the options each action reads
FieldsOf(action) ==
  CASE action = "push" -> {"localFiles", "remoteDir"}
    [] action = "install" -> {"remoteFiles"}
    [] action = "script" -> {"remoteScript"}
    [] OTHER -> {}

StopOnFailureActions == {"uninstall", "start", "stop", "debug"}

AllRequests ==
  [action : ActionValues, asRoot : AsRootValues, fields : SUBSET Fields,
   stopOnFailure : BOOLEAN, browserCmd : BOOLEAN,
   overwrite : OverwriteValues, chmod : BOOLEAN, localPort : LocalPortValues,
   args : ArgsValues]

\* A request leaves at their default the fields and options its action
\* never reads: the orchestrator's behaviour cannot depend on them.
Relevant(d) ==
  /\ d.fields \subseteq FieldsOf(d.action)
  /\ d.stopOnFailure => d.action \in StopOnFailureActions
  /\ d.browserCmd => d.action = "debug"
  /\ d.localPort # 0 => d.action = "debug"
  /\ d.overwrite # "absent" => d.action = "push"
  /\ d.chmod => d.action = "push"
  /\ d.args # <<>> => d.action = "script"

Requests == {d \in AllRequests : Relevant(d)}

\* Bridge operations (remote calls) as they appear in the call trace
RootOps == {"root(true)", "root(false)"}
BridgeOps == RootOps \cup {"push", "install", "uninstall", "runScript", "launch",
                           "portForward", "runBrowser"}

\* validation errors raised by tizenTask itself
ValidationErrors == {"E_noAction", "E_badAction"}

\* configuration errors raised by the commands for a missing request field
ConfigErrors == {"E_push_localFiles", "E_push_remoteDir",
                 "E_install_remoteFiles", "E_script_remoteScript"}

VARIABLES
  impl,        \* which tasks-maker is running: promise or callback form
  data,        \* the ActionRequest
  pc,          \* position of the task
  asRoot,      \* the resolved asRoot flag
  calls,       \* trace of calls made by the orchestrator, in order
  rootOn,      \* outcome of Bridge.root(true):  "none" | "ok" | "fail"
  cmdOutcome,  \* outcome reported by the command: "none" | "ok" | error
  rootOff,     \* outcome of Bridge.root(false): "none" | "ok" | "fail"
  result,      \* what the caller received: "pending" | "ok" | error
  doneCount,   \* how many times the caller's completion was signalled
  files,       \* number of paths in the resolved file list
  one,         \* per file: state of its pushOne / installOne
  startCount,  \* per file: how many times its pushOne / installOne started
  completed,   \* async.each: number of successful iterator completions
  eachCb,      \* async.each: calls of the final callback
  deferred,    \* the Q deferred of Bridge.push / Bridge.install
  launchOut,   \* value Bridge.launch resolved with
  logged,      \* messages written to the logger
  fsList,      \* the resolved file list: a sequence of paths
  device,      \* the remote paths that exist on the device
  sub,         \* per file: progress of its pushOne / installOne
  remoteRes,   \* what the remote tizen-app.sh call came back with
  portDigits,  \* the digits after 'PORT ' in the launch stdout
  fwdArgs,     \* arguments of the bridge.portForward call
  fwdOut,      \* outcome of bridge.portForward: "none" | "ok" | "fail"
  browserOut,  \* outcome of bridge.runBrowser:  "none" | "ok" | "fail"
  opArgs,      \* arguments of the call of the action's Bridge operation
  unit         \* a library component exercised on its own: see LibSpec

taskVars == <<impl, data, pc, asRoot, calls, rootOn, cmdOutcome, rootOff,
              result, doneCount>>
fanVars == <<files, one, startCount, completed, eachCb, deferred, fsList,
            device, sub>>
chainVars == <<remoteRes, portDigits, fwdArgs, fwdOut, browserOut>>
mainVars == <<impl, data, pc, asRoot, calls, rootOn, cmdOutcome, rootOff,
              result, doneCount, files, one, startCount, completed, eachCb,
              deferred, launchOut, logged, fsList, device, sub, remoteRes,
              portDigits, fwdArgs, fwdOut, browserOut, opArgs>>
vars == <<impl, data, pc, asRoot, calls, rootOn, cmdOutcome, rootOff,
          result, doneCount, files, one, startCount, completed, eachCb,
          deferred, launchOut, logged, fsList, device, sub, remoteRes,
          portDigits, fwdArgs, fwdOut, browserOut, opArgs, unit>>

\* ---------------------------------------------------------------- helpers
Count(s, x) == Cardinality({i \in 1..Len(s) : s[i] = x})

\* position of the first occurrence of x in s, 0 when absent
FirstIndex(s, x) ==
  IF \E i \in 1..Len(s) : s[i] = x
  THEN CHOOSE i \in 1..Len(s) : s[i] = x /\ \A j \in 1..(i-1) : s[j] # x
  ELSE 0

\* position of the last occurrence of x in s, 0 when absent
LastIndex(s, x) ==
  IF \E i \in 1..Len(s) : s[i] = x
  THEN CHOOSE i \in 1..Len(s) : s[i] = x /\ \A j \in (i+1)..Len(s) : s[j] # x
  ELSE 0

\* ------------------------------------------------- tasks-maker: pure parts
Has(d, f) == f \in d.fields

\* var asRoot = data.asRoot || false
asRootDefault(d) == d.asRoot = "true"

\* the command function tizenTask selects for an action; "null" when the
\* action maps to no command.  Only the callback form knows "watch".
selectCmd(im, action) ==
  CASE action = "push" -> "push"
    [] action = "install" -> "install"
    [] action = "uninstall" -> "uninstall"
    [] action = "script" -> "script"
    [] action \in {"start", "stop", "debug"} -> "launch"
    [] action = "watch" /\ im = "callback" -> "watch"
    [] OTHER -> "null"

\* faulty variant: the install branch does not force asRoot
resolveAsRootNoForce(d) == asRootDefault(d)

\* install is forced to run as root whatever the caller asked for
resolveAsRoot(d) ==
  IF d.action = "install" THEN TRUE ELSE asRootDefault(d)

\* What a command does synchronously when applied: the calls it makes, and
\* either the error it reports at once (next = "return") or the suspension
\* point it stops at.  metaOk is the outcome of the synchronous getMeta()
\* of the callback form (unused by the promise form, whose getMeta() is a
\* suspension point).
\* faulty variant: push reads the metadata before it calls Bridge.push
pushFetchesMeta(d) ==
  IF ~Has(d, "localFiles")
  THEN [next |-> "return", ops |-> <<>>, err |-> "E_push_localFiles"]
  ELSE IF ~Has(d, "remoteDir")
  THEN [next |-> "return", ops |-> <<>>, err |-> "E_push_remoteDir"]
  ELSE [next |-> "list", ops |-> <<"getMeta", "push">>, err |-> "none"]

push(d) ==
  IF ~Has(d, "localFiles")
  THEN [next |-> "return", ops |-> <<>>, err |-> "E_push_localFiles"]
  ELSE IF ~Has(d, "remoteDir")
  THEN [next |-> "return", ops |-> <<>>, err |-> "E_push_remoteDir"]
  ELSE [next |-> "list", ops |-> <<"push">>, err |-> "none"]

install(d) ==
  IF ~Has(d, "remoteFiles")
  THEN [next |-> "return", ops |-> <<>>, err |-> "E_install_remoteFiles"]
  ELSE [next |-> "list", ops |-> <<"install">>, err |-> "none"]

\* shared shape of uninstall / script / launch once their own validation
\* passed: fetch the metadata, then call the Bridge operation op
withMeta(im, metaOk, op) ==
  IF im = "promise"
  THEN [next |-> "meta", ops |-> <<"getMeta">>, err |-> "none"]
  ELSE IF metaOk
  THEN [next |-> "bridgeOp", ops |-> <<"getMeta", op>>, err |-> "none"]
  ELSE [next |-> "return", ops |-> <<"getMeta">>, err |-> "E_meta"]

uninstall(im, d, metaOk) == withMeta(im, metaOk, "uninstall")

script(im, d, metaOk) ==
  IF ~Has(d, "remoteScript")
  THEN [next |-> "return", ops |-> <<>>, err |-> "E_script_remoteScript"]
  ELSE withMeta(im, metaOk, "runScript")

launch(im, d, metaOk) == withMeta(im, metaOk, "launch")

\* the stub of the callback form: does nothing and never calls done
watch == [next |-> "hung", ops |-> <<>>, err |-> "none"]

cmdApply(im, d, metaOk) ==
  CASE selectCmd(im, d.action) = "push" -> push(d)
    [] selectCmd(im, d.action) = "install" -> install(d)
    [] selectCmd(im, d.action) = "uninstall" -> uninstall(im, d, metaOk)
    [] selectCmd(im, d.action) = "script" -> script(im, d, metaOk)
    [] selectCmd(im, d.action) = "launch" -> launch(im, d, metaOk)
    [] OTHER -> watch

\* faulty variant: the default arguments are put in front of data.args in
\* place (args.unshift)
scriptArgsInPlace(dataArgs) ==
  [args |-> <<"packageName", "id">> \o dataArgs,
   dataArgs |-> <<"packageName", "id">> \o dataArgs]

\* script: args = [meta.packageName, meta.id].concat(args); concat builds a
\* new list, so the list of the request (dataArgs) stays as it was
scriptArgs(dataArgs) ==
  [args |-> <<"packageName", "id">> \o dataArgs, dataArgs |-> dataArgs]

\* faulty variant: overwrite = data.overwrite || false
overwriteOfTruthy(d) == d.overwrite = "true"

\* var overwrite = (data.overwrite === false ? false : true)
overwriteOf(d) == d.overwrite # "false"

\* var chmod = data.chmod || null
chmodOf(d) == IF d.chmod THEN "+x" ELSE "null"

\* faulty variant: script puts the application id in front of the package
\* name
bridgeArgsIdFirst(d, op) ==
  CASE op = "push" -> <<"localFiles", "remoteDir", overwriteOf(d), chmodOf(d)>>
    [] op = "install" -> <<"remoteFiles">>
    [] op = "uninstall" -> <<"packageName", d.stopOnFailure>>
    [] op = "runScript" -> <<"remoteScript", <<"id", "packageName">> \o d.args>>
    [] op = "launch" -> <<d.action, "id", d.stopOnFailure>>
    [] OTHER -> <<>>

\* the arguments a command passes to its Bridge operation op
bridgeArgs(d, op) ==
  CASE op = "push" -> <<"localFiles", "remoteDir", overwriteOf(d), chmodOf(d)>>
    [] op = "install" -> <<"remoteFiles">>
    [] op = "uninstall" -> <<"packageName", d.stopOnFailure>>
    [] op = "runScript" -> <<"remoteScript", scriptArgs(d.args).args>>
    [] op = "launch" -> <<d.action, "id", d.stopOnFailure>>
    [] OTHER -> <<>>

\* the request after a command called its Bridge operation op
dataAfter(d, op) ==
  IF op = "runScript" THEN [d EXCEPT !.args = scriptArgs(d.args).dataArgs]
  ELSE d

\* the Bridge operation called last in the calls ops, "none" if none was
opCalled(ops) ==
  IF ops # <<>> /\ ops[Len(ops)] \in BridgeOps THEN ops[Len(ops)] ELSE "none"

\* the Bridge operation a command calls once the metadata is there
bridgeOpOf(action) ==
  CASE action = "uninstall" -> "uninstall"
    [] action = "script" -> "runScript"
    [] OTHER -> "launch"

\* faulty variant: the outcome of root(false) is dropped
rootOffResultIgnored(im, cmdOut, offOk) == cmdOut

\* faulty variant: the command is applied whatever root(true) reported
rootOnCbAlways(ok) == "apply"

\* Result delivered to the caller when root(false) completed.
\* promise form: p.finally(cb) keeps p's outcome unless cb's promise is
\* rejected, in which case the result is rejected with cb's reason.
\* callback form: the command's error wins; otherwise the arguments of
\* root(false)'s callback are handed to done.
rootOffResult(im, cmdOut, offOk) ==
  IF im = "promise"
  THEN IF offOk THEN cmdOut ELSE "E_rootOff"
  ELSE IF cmdOut # "ok" THEN cmdOut
       ELSE IF offOk THEN "ok" ELSE "E_rootOff"

\* the continuation of Bridge.root(true): the command is applied only
\* when root(true) succeeded, otherwise the task fails at once
rootOnCb(ok) == IF ok THEN "apply" ELSE "fail"

\* --------------------------------------------------------- Bridge: Q, async
\* deferred.reject / deferred.resolve: a settled deferred ignores both
Reject(dfd) == IF dfd = "pending" THEN "rejected" ELSE dfd
Resolve(dfd) == IF dfd = "pending" THEN "fulfilled" ELSE dfd

\* faulty variant: eachSeries, only the first iterator is started
eachStartSeries(n) == [i \in 1..n |-> IF i = 1 THEN "running" ELSE "idle"]

\* async.each starts the iterator for every element of the list before
\* returning: every pushOne / installOne is in flight at once
eachStart(n) == [i \in 1..n |-> "running"]

\* final callback of async.each in Bridge.push
pushFinalCb(dfd, err) ==
  IF err THEN Reject(dfd) ELSE Resolve(dfd)

\* faulty variant: deferred.resolve() is reached before deferred.reject()
installFinalCbResolveFirst(dfd, err) ==
  IF err THEN Reject(Resolve(dfd)) ELSE Resolve(dfd)

\* final callback of async.each in Bridge.install: deferred.resolve() is
\* reached on every path, after deferred.reject() on the error path
installFinalCb(dfd, err) ==
  IF err THEN Resolve(Reject(dfd)) ELSE Resolve(dfd)

\* messages the final callbacks log
pushFinalLog(err) ==
  IF err THEN {"error: pushOne"} ELSE {"ok: all files pushed"}

\* faulty variant: no branch for the empty list
installFinalLogNoEmpty(n, err) ==
  IF err THEN {"error: installOne"} ELSE {"ok: all packages installed"}

installFinalLog(n, err) ==
  IF err THEN {"error: installOne"}
  ELSE IF n = 0 THEN {"warn: no packages to install"}
  ELSE {"ok: all packages installed"}

\* the error the aggregate is rejected with
aggregateError(op) ==
  IF op = "push" THEN "E_pushAgg" ELSE "E_installAgg"

\* --------------------------------------------------- Bridge: classification
\* what the remote tizen-app.sh call can come back with
UninstallRemote == {"fail", "match", "clean"}
LaunchRemote == {"fail", "match", "port", "noport", "empty"}

\* faulty variant: the output of a successful call is not inspected
uninstallResultNoMatch(remote, stopOnFailure) ==
  IF remote = "fail" /\ stopOnFailure THEN "E_uninstall" ELSE "ok"

\* Bridge.uninstall: a failed call, or output matching 'not installed|failed',
\* goes through errorHandler, which throws only when stopOnFailure is set
uninstallResult(remote, stopOnFailure) ==
  IF remote \in {"fail", "match"} /\ stopOnFailure THEN "E_uninstall" ELSE "ok"

\* faulty variant: the success branch does not return stdout
launchResultNoStdout(remote, stopOnFailure) ==
  IF remote \in {"fail", "match"} /\ stopOnFailure THEN "err" ELSE "undefined"

\* Bridge.launch: "err" when rejected, "undefined" when the failure was
\* tolerated, otherwise the stdout the remote call produced
launchResult(remote, stopOnFailure) ==
  IF remote \in {"fail", "match"}
  THEN IF stopOnFailure THEN "err" ELSE "undefined"
  ELSE remote

\* the debug chain after Bridge.launch came back without error: the next
\* Bridge call, or the error the task fails with
debugStep(im, out) ==
  IF im = "promise"
  THEN CASE out = "undefined" -> "E_typeError"
         [] out = "port" -> "portForward"
         [] OTHER -> "E_noPort"
  ELSE CASE out \in {"undefined", "empty"} -> "E_noLaunchDebug"
         [] out = "port" -> "portForward"
         [] OTHER -> "E_noPort"

\* warnings and errors the errorHandler of Bridge.uninstall logs
uninstallLog(remote, stopOnFailure) ==
  IF remote \in {"fail", "match"}
  THEN IF stopOnFailure THEN {} ELSE {"warn: could not uninstall package"}
  ELSE {"ok: package uninstalled"}

\* warnings and errors the errorHandler of Bridge.launch logs
launchLog(remote, stopOnFailure) ==
  IF remote \in {"fail", "match"}
  THEN IF stopOnFailure THEN {"error: could not launch"}
       ELSE {"warn: could not launch; continuing anyway"}
  ELSE {"ok: app launched"}

\* ------------------------------------------------- debug chain: the ports
\* var localPort = data.localPort || '8888'
DefaultLocalPort == 8888

localPortOf(d) == IF d.localPort = 0 THEN DefaultLocalPort ELSE d.localPort

\* the digit strings a launch stdout 'PORT <digits>' may carry
PortDigits == {<<7>>, <<1, 2>>, <<0, 8, 0>>}

\* parseInt(result[1], 10) on the digits captured by /PORT (\d+)/
RECURSIVE parseInt(_)
parseInt(ds) ==
  IF ds = <<>> THEN 0
  ELSE 10 * parseInt(SubSeq(ds, 1, Len(ds) - 1)) + ds[Len(ds)]

\* faulty variant: the browser is started whatever portForward came back with
afterPortForwardAlways(ok, browserCmd) ==
  IF browserCmd THEN "runBrowser" ELSE "done"

\* the continuation of bridge.portForward in the debug chain
afterPortForward(ok, browserCmd) ==
  IF ~ok THEN "fail"
  ELSE IF browserCmd THEN "runBrowser" ELSE "done"

\* ------------------------------------------------------------ Bridge: paths
\* paths are sequences of characters
Slash == "/"

\* path.basename: trailing slashes are ignored, then the part after the
\* last slash is taken
RECURSIVE dropTrailingSlashes(_)
dropTrailingSlashes(p) ==
  IF Len(p) > 0 /\ p[Len(p)] = Slash
  THEN dropTrailingSlashes(SubSeq(p, 1, Len(p) - 1))
  ELSE p

\* faulty variant: every trailing slash is removed (/\/+$/)
stripTrailingSlashes(dir) == dropTrailingSlashes(dir)

\* remoteDir.replace(/\/$/, ''): one trailing slash is removed
stripTrailingSlash(dir) ==
  IF Len(dir) > 0 /\ dir[Len(dir)] = Slash
  THEN SubSeq(dir, 1, Len(dir) - 1)
  ELSE dir

RECURSIVE lastSegment(_)
lastSegment(p) ==
  IF p = <<>> \/ p[Len(p)] = Slash THEN <<>>
  ELSE Append(lastSegment(SubSeq(p, 1, Len(p) - 1)), p[Len(p)])

basename(p) == lastSegment(dropTrailingSlashes(p))

getDestination(localFile, remoteDir) ==
  stripTrailingSlash(remoteDir) \o <<Slash>> \o basename(localFile)

\* the remoteDir of a push request that has one
RemoteDir == <<"/", "t", "/">>

\* local files the File Lister may resolve a push FileSpec to; two of them
\* share a basename
LocalFiles == {<<"a">>, <<"d", "/", "a">>, <<"b">>}

\* remote packages listRemoteFiles may resolve an install FileSpec to
RemoteFiles == {<<"p">>, <<"q">>}

\* the lists a listing may resolve to, for the fan-out operation op
FileLists(op) ==
  UNION {[1..n -> IF op = "push" THEN LocalFiles ELSE RemoteFiles] :
           n \in 0..MaxFiles}

\* the remote paths a push may write
Dests == {getDestination(f, RemoteDir) : f \in LocalFiles}

\* --------------------------------------------- Bridge: pushOne, installOne
\* what the remote 'stat <path>' can come back with: success when the path
\* is on the device; otherwise a failure whose message is exactly 'No such
\* file or directory', or is the whole command output containing it (the
\* Remote Executor rejects with new Error(stdout)); or any other failure
StatOutcomes(path, dev) ==
  IF path \in dev THEN {"ok", "fail_other"}
  ELSE {"nsf_exact", "nsf_whole", "fail_other"}

\* Bridge.fileExists: true on success, false when the error message is
\* 'No such file or directory' (compared with ===), the error otherwise
fileExists(stat) ==
  CASE stat = "ok" -> "true"
    [] stat = "nsf_exact" -> "false"
    [] OTHER -> "error"

\* what the transport's push can come back with
PushOutcomes == {"ok", "fail_known", "fail_other"}

\* faulty variant: every failure of the transport is thrown unchanged
pushRawPassThrough(transport) ==
  IF transport = "ok" THEN "none" ELSE "E_transport"

\* Bridge.pushRaw: a failure whose message matches 'failed to copy',
\* 'cannot stat' or 'device not found' becomes 'could not push file to
\* device'; any other failure is thrown unchanged
pushRaw(transport) ==
  CASE transport = "ok" -> "none"
    [] transport = "fail_known" -> "E_couldNotPush"
    [] OTHER -> "E_transport"

\* what the remote tizen-app.sh install can come back with
InstallRemote == {"fail", "token", "clean"}

\* faulty variant: the output of a successful call is not inspected
installOneNoToken(remote) ==
  IF remote = "fail" THEN "E_remote" ELSE "none"

\* Bridge.installOne: a failed call propagates; output containing
\* 'key[end] val[fail]' throws 'installation failed'
installOne(remote) ==
  CASE remote = "fail" -> "E_remote"
    [] remote = "token" -> "E_installFailed"
    [] OTHER -> "none"

\* state of one pushOne / installOne: where it is, the Bridge calls it made
\* (name and path), what they came back with, and what it settled with
newOne(phase, call) ==
  [phase |-> phase, ops |-> <<call>>, stat |-> "none", exists |-> "none",
   raw |-> "none", chm |-> "none", remote |-> "none", err |-> "none",
   value |-> "none", wrote |-> "none"]

\* Bridge.pushOne up to its first suspension point
pushOne(localFile, remoteDir, overwrite, chmod) ==
  IF overwrite
  THEN newOne("pushRaw", <<"pushRaw", getDestination(localFile, remoteDir)>>)
  ELSE newOne("fileExists", <<"fileExists", getDestination(localFile, remoteDir)>>)

\* Bridge.installOne up to its suspension point
installOneStart(remoteFile) ==
  newOne("installOne", <<"runTizenAppScript install", remoteFile>>)

\* faulty variant: the push goes ahead although the destination exists
afterFileExistsAlwaysPush(exists) ==
  IF exists \in {"true", "false"} THEN "pushRaw" ELSE "fail"

\* pushOne after fileExists settled: skip the push, push, or fail
afterFileExists(exists) ==
  CASE exists = "true" -> "skip"
    [] exists = "false" -> "pushRaw"
    [] OTHER -> "fail"

\* faulty variant: chmod is applied whether or not a spec was given
setChmodAlways(chmod) == "chmod"

\* setChmod, the continuation of pushRaw: chmod only if a spec was given
setChmod(chmod) == IF chmod THEN "chmod" ELSE "settle"

\* the argument asyncCb receives from promise.then(asyncCb, asyncCb) is an
\* error when the promise was rejected or resolved with a truthy value
asyncCbErr(err, value) == err # "none" \/ value # "undefined"

\* ------------------------------------------------------------------- state
\* no library component is exercised on its own
NoUnit == [comp |-> "none"]

\* the request lacks a field its action requires
ConfigMissing(d) ==
  \/ d.action = "push" /\ (~Has(d, "localFiles") \/ ~Has(d, "remoteDir"))
  \/ d.action = "install" /\ ~Has(d, "remoteFiles")
  \/ d.action = "script" /\ ~Has(d, "remoteScript")

TypeOK ==
  /\ impl \in Impls
  /\ data \in Requests
  /\ pc \in {"init", "rootOn", "meta", "list", "fanout", "bridgeOp",
             "portForward", "runBrowser", "rootOff", "hung", "done"}
  /\ asRoot \in BOOLEAN
  /\ rootOn \in {"none", "ok", "fail"}
  /\ rootOff \in {"none", "ok", "fail"}
  /\ doneCount \in 0..2
  /\ files \in 0..MaxFiles
  /\ DOMAIN one = 1..files
  /\ deferred \in {"pending", "fulfilled", "rejected"}
  /\ Len(fsList) = files
  /\ device \subseteq Dests
  /\ DOMAIN sub = 1..files
  /\ remoteRes \in {"none"} \cup UninstallRemote \cup LaunchRemote
  /\ portDigits \in {<<>>} \cup PortDigits
  /\ fwdOut \in {"none", "ok", "fail"}
  /\ browserOut \in {"none", "ok", "fail"}

\* only a push that must not overwrite looks at what is on the device
InitialDevices(d) ==
  IF d.action = "push" /\ ~overwriteOf(d) /\ ~ConfigMissing(d)
  THEN SUBSET Dests
  ELSE {{}}

Init ==
  /\ impl \in Impls
  /\ data \in Requests
  /\ pc = "init"
  /\ asRoot = FALSE
  /\ calls = <<>>
  /\ rootOn = "none"
  /\ cmdOutcome = "none"
  /\ rootOff = "none"
  /\ result = "pending"
  /\ doneCount = 0
  /\ files = 0
  /\ one = <<>>
  /\ startCount = <<>>
  /\ completed = 0
  /\ eachCb = 0
  /\ deferred = "pending"
  /\ launchOut = "none"
  /\ logged = {}
  /\ fsList = <<>>
  /\ device \in InitialDevices(data)
  /\ sub = <<>>
  /\ remoteRes = "none"
  /\ portDigits = <<>>
  /\ fwdArgs = <<>>
  /\ fwdOut = "none"
  /\ browserOut = "none"
  /\ opArgs = <<>>
  /\ unit = NoUnit

\* --------------------------------------------------- tasks-maker: tizenTask
\* faulty variant: root(false) chained with .then(): skipped when the command fails
cleanupRunsOnSuccess(im, e) == e = "ok"

\* the root(false) cleanup runs whatever the command reported: .finally()
\* in the promise form, the cb wrapper in the callback form
cleanupRuns(im, e) == TRUE

\* the caller's completion is signalled with e
signal(e) ==
  /\ pc' = "done"
  /\ result' = e
  /\ doneCount' = doneCount + 1

\* the command reported outcome e ("ok" or an error); c is the call trace
\* up to that point and br tells whether the task runs in the root bracket
report(e, c, br) ==
  /\ cmdOutcome' = e
  /\ IF br /\ cleanupRuns(impl, e)
     THEN /\ pc' = "rootOff"
          /\ calls' = c \o <<"cmdDone", "root(false)">>
          /\ UNCHANGED <<result, doneCount>>
     ELSE /\ calls' = c \o <<"cmdDone">>
          /\ signal(e)

\* cmd.apply(null, args): r is what the command does synchronously
apply(r, c, br) ==
  /\ opArgs' = IF opCalled(r.ops) = "none" THEN opArgs
               ELSE bridgeArgs(data, opCalled(r.ops))
  /\ data' = dataAfter(data, opCalled(r.ops))
  /\ IF r.next = "return"
     THEN report(r.err, c \o <<"cmd">> \o r.ops, br)
     ELSE /\ pc' = r.next
          /\ calls' = c \o <<"cmd">> \o r.ops
          /\ UNCHANGED <<cmdOutcome, result, doneCount>>

tizenTask ==
  /\ pc = "init"
  /\ asRoot' = resolveAsRoot(data)
  /\ \E metaOk \in BOOLEAN :
       IF data.action = "none"
       THEN signal("E_noAction") /\ UNCHANGED <<calls, cmdOutcome, data, opArgs>>
       ELSE IF selectCmd(impl, data.action) = "null"
       THEN signal("E_badAction") /\ UNCHANGED <<calls, cmdOutcome, data, opArgs>>
       ELSE IF asRoot'
       THEN /\ pc' = "rootOn"
            /\ calls' = <<"root(true)">>
            /\ UNCHANGED <<cmdOutcome, result, doneCount, data, opArgs>>
       ELSE apply(cmdApply(impl, data, metaOk), calls, FALSE)
  /\ UNCHANGED <<impl, rootOn, rootOff, launchOut, logged, unit>>
  /\ UNCHANGED fanVars
  /\ UNCHANGED chainVars

\* the request tizenPrepareTask builds for push: the tizen-app.sh script of
\* the Bridge, its remote directory, chmod '+x', overwrite true
PrepareRequest ==
  [action |-> "push", asRoot |-> "absent",
   fields |-> {"localFiles", "remoteDir"}, stopOnFailure |-> FALSE,
   browserCmd |-> FALSE, overwrite |-> "true", chmod |-> TRUE,
   localPort |-> 0, args |-> <<>>]

\* tizenPrepareTask: the push command applied directly, outside any root
\* bracket and without action selection
tizenPrepareTask ==
  /\ pc = "init"
  /\ data = PrepareRequest
  /\ asRoot' = FALSE
  /\ apply(push(data), <<"tizenPrepareTask">>, FALSE)
  /\ UNCHANGED <<impl, rootOn, rootOff, launchOut, logged, unit>>
  /\ UNCHANGED fanVars
  /\ UNCHANGED chainVars

\* Bridge.root(true) completed
rootOnDone ==
  /\ pc = "rootOn"
  /\ \E ok \in BOOLEAN, metaOk \in BOOLEAN :
       IF rootOnCb(ok) = "apply"
       THEN /\ rootOn' = IF ok THEN "ok" ELSE "fail"
            /\ apply(cmdApply(impl, data, metaOk), calls, TRUE)
       ELSE /\ rootOn' = "fail"
            /\ signal("E_rootOn")
            /\ UNCHANGED <<calls, cmdOutcome, data, opArgs>>
  /\ UNCHANGED <<impl, asRoot, rootOff, launchOut, logged, unit>>
  /\ UNCHANGED fanVars
  /\ UNCHANGED chainVars

\* Bridge.root(false) completed
rootOffDone ==
  /\ pc = "rootOff"
  /\ \E ok \in BOOLEAN :
       /\ rootOff' = IF ok THEN "ok" ELSE "fail"
       /\ signal(rootOffResult(impl, cmdOutcome, ok))
  /\ UNCHANGED <<impl, data, asRoot, calls, rootOn, cmdOutcome, launchOut, logged>>
  /\ UNCHANGED fanVars
  /\ UNCHANGED chainVars
  /\ UNCHANGED <<opArgs, unit>>

\* tizenConfig.getMeta() settled (promise form)
metaDone ==
  /\ pc = "meta"
  /\ \E ok \in BOOLEAN :
       IF ok
       THEN /\ pc' = "bridgeOp"
            /\ calls' = Append(calls, bridgeOpOf(data.action))
            /\ opArgs' = bridgeArgs(data, bridgeOpOf(data.action))
            /\ data' = dataAfter(data, bridgeOpOf(data.action))
            /\ UNCHANGED <<cmdOutcome, result, doneCount>>
       ELSE report("E_meta", calls, asRoot) /\ UNCHANGED <<data, opArgs>>
  /\ UNCHANGED <<impl, asRoot, rootOn, rootOff, launchOut, logged, unit>>
  /\ UNCHANGED fanVars
  /\ UNCHANGED chainVars

\* ------------------------------------------------ Bridge: push and install
\* the fan-out operation of the running task
fanOp == IF data.action = "push" THEN "push" ELSE "install"

finalCb(op, dfd, err) ==
  IF op = "push" THEN pushFinalCb(dfd, err) ELSE installFinalCb(dfd, err)

finalLog(op, n, err) ==
  IF op = "push" THEN pushFinalLog(err) ELSE installFinalLog(n, err)

\* the iterator async.each runs for file f; args are the arguments
\* Bridge.push / Bridge.install was called with
iterator(op, f, args) ==
  IF op = "push" THEN pushOne(f, RemoteDir, args[3], args[4] # "null")
  ELSE installOneStart(f)

\* fileLister.list / listRemoteFiles settled; on success the continuation
\* hands the resolved paths to async.each, which starts every iterator
\* and, for an empty list, calls the final callback at once
listDone ==
  /\ pc = "list"
  /\ \E ok \in BOOLEAN, fl \in FileLists(fanOp) :
       IF ok
       THEN /\ fsList' = fl
            /\ files' = Len(fl)
            /\ one' = eachStart(Len(fl))
            /\ startCount' = [i \in 1..Len(fl) |->
                                IF one'[i] = "running" THEN 1 ELSE 0]
            /\ sub' = [i \in 1..Len(fl) |->
                         IF one'[i] = "running"
                         THEN iterator(fanOp, fl[i], opArgs)
                         ELSE [newOne("idle", <<>>) EXCEPT !.ops = <<>>]]
            /\ completed' = 0
            /\ eachCb' = IF fl = <<>> THEN 1 ELSE 0
            /\ deferred' = IF fl = <<>> THEN finalCb(fanOp, "pending", FALSE)
                                        ELSE "pending"
            /\ logged' = IF fl = <<>>
                         THEN logged \cup finalLog(fanOp, 0, FALSE)
                         ELSE logged
            /\ pc' = "fanout"
            /\ UNCHANGED <<calls, cmdOutcome, result, doneCount, device>>
       ELSE /\ report("E_list", calls, asRoot)
            /\ UNCHANGED fanVars
            /\ UNCHANGED logged
  /\ UNCHANGED <<impl, data, asRoot, rootOn, rootOff, launchOut>>
  /\ UNCHANGED chainVars
  /\ UNCHANGED <<opArgs, unit>>

\* the path pushOne computed for file i
remotePath(i) == getDestination(fsList[i], RemoteDir)

\* pushOne / installOne of file i goes on to its next remote call
oneStep(i, s, phase, call) ==
  /\ sub' = [sub EXCEPT ![i] = [s EXCEPT !.phase = phase,
                                         !.ops = Append(@, call)]]
  /\ UNCHANGED <<one, completed, eachCb, deferred, logged>>

\* pushOne / installOne of file i settled with error err ("none" when it
\* resolved, then with value) and called its asyncCb: the first error calls
\* the final callback and disarms it; the last success calls it when no
\* error came before. lg is what the operation logged on the way.
asyncCb(i, s, err, value, lg) ==
  /\ sub' = [sub EXCEPT ![i] = [s EXCEPT !.phase = "settled", !.err = err,
                                         !.value = value]]
  /\ one' = [one EXCEPT ![i] = IF asyncCbErr(err, value) THEN "fail" ELSE "ok"]
  /\ completed' = IF asyncCbErr(err, value) THEN completed ELSE completed + 1
  /\ IF eachCb = 0 /\ (asyncCbErr(err, value) \/ completed' >= files)
     THEN /\ eachCb' = 1
          /\ deferred' = finalCb(fanOp, deferred, asyncCbErr(err, value))
          /\ logged' = logged \cup lg
                         \cup finalLog(fanOp, files, asyncCbErr(err, value))
     ELSE /\ logged' = logged \cup lg
          /\ UNCHANGED <<eachCb, deferred>>

\* the stat of Bridge.fileExists came back for file i
fileExistsDone(i) ==
  /\ sub[i].phase = "fileExists"
  /\ \E stat \in StatOutcomes(remotePath(i), device) :
       LET s == [sub[i] EXCEPT !.stat = stat, !.exists = fileExists(stat)]
       IN  IF afterFileExists(s.exists) = "skip"
           THEN asyncCb(i, s, "none", "undefined",
                        {"warn: not pushing as file exists"})
           ELSE IF afterFileExists(s.exists) = "pushRaw"
           THEN oneStep(i, s, "pushRaw", <<"pushRaw", remotePath(i)>>)
           ELSE asyncCb(i, s, "E_stat", "undefined", {})
  /\ UNCHANGED <<files, startCount, fsList, device, launchOut>>
  /\ UNCHANGED taskVars
  /\ UNCHANGED chainVars
  /\ UNCHANGED <<opArgs, unit>>

\* the transport's push of Bridge.pushRaw came back for file i
pushRawDone(i) ==
  /\ sub[i].phase = "pushRaw"
  /\ \E transport \in PushOutcomes :
       LET s == [sub[i] EXCEPT
                   !.raw = transport,
                   !.wrote = IF transport # "ok" THEN "none"
                             ELSE IF remotePath(i) \in device THEN "over"
                             ELSE "new"]
       IN  IF pushRaw(transport) # "none"
           THEN /\ asyncCb(i, s, pushRaw(transport), "undefined", {})
                /\ UNCHANGED device
           ELSE /\ device' = device \cup {remotePath(i)}
                /\ IF setChmod(opArgs[4] # "null") = "chmod"
                   THEN oneStep(i, s, "chmod", <<"chmod", remotePath(i)>>)
                   ELSE asyncCb(i, s, "none", "undefined", {})
  /\ UNCHANGED <<files, startCount, fsList, launchOut>>
  /\ UNCHANGED taskVars
  /\ UNCHANGED chainVars
  /\ UNCHANGED <<opArgs, unit>>

\* the remote chmod of Bridge.chmod came back for file i
chmodDone(i) ==
  /\ sub[i].phase = "chmod"
  /\ \E ok \in BOOLEAN :
       asyncCb(i, [sub[i] EXCEPT !.chm = IF ok THEN "ok" ELSE "fail"],
               IF ok THEN "none" ELSE "E_chmod", "undefined", {})
  /\ UNCHANGED <<files, startCount, fsList, device, launchOut>>
  /\ UNCHANGED taskVars
  /\ UNCHANGED chainVars
  /\ UNCHANGED <<opArgs, unit>>

\* the remote tizen-app.sh install of Bridge.installOne came back for file i
installOneDone(i) ==
  /\ sub[i].phase = "installOne"
  /\ \E remote \in InstallRemote :
       asyncCb(i, [sub[i] EXCEPT !.remote = remote], installOne(remote),
               "undefined", {})
  /\ UNCHANGED <<files, startCount, fsList, device, launchOut>>
  /\ UNCHANGED taskVars
  /\ UNCHANGED chainVars
  /\ UNCHANGED <<opArgs, unit>>

\* the promise Bridge.push / Bridge.install returned is settled and the
\* orchestrator's continuation runs
aggregateSettled ==
  /\ pc = "fanout"
  /\ deferred # "pending"
  /\ report(IF deferred = "fulfilled" THEN "ok" ELSE aggregateError(fanOp),
            calls, asRoot)
  /\ UNCHANGED <<impl, data, asRoot, rootOn, rootOff, launchOut, logged>>
  /\ UNCHANGED fanVars
  /\ UNCHANGED chainVars
  /\ UNCHANGED <<opArgs, unit>>

\* ------------------------------- Bridge: uninstall, runScript, launch chain
uninstallDone ==
  /\ pc = "bridgeOp"
  /\ data.action = "uninstall"
  /\ \E remote \in UninstallRemote :
       /\ remoteRes' = remote
       /\ logged' = logged \cup uninstallLog(remote, data.stopOnFailure)
       /\ report(uninstallResult(remote, data.stopOnFailure), calls, asRoot)
  /\ UNCHANGED <<impl, data, asRoot, rootOn, rootOff, launchOut>>
  /\ UNCHANGED <<portDigits, fwdArgs, fwdOut, browserOut>>
  /\ UNCHANGED fanVars
  /\ UNCHANGED <<opArgs, unit>>

runScriptDone ==
  /\ pc = "bridgeOp"
  /\ data.action = "script"
  /\ \E ok \in BOOLEAN :
       report(IF ok THEN "ok" ELSE "E_runScript", calls, asRoot)
  /\ UNCHANGED <<impl, data, asRoot, rootOn, rootOff, launchOut, logged>>
  /\ UNCHANGED fanVars
  /\ UNCHANGED chainVars
  /\ UNCHANGED <<opArgs, unit>>

\* the digit strings the stdout of a launch can carry after 'PORT '
digitsOf(remote) == IF remote = "port" THEN PortDigits ELSE {<<>>}

\* Bridge.launch settled; for debug the chain goes on to portForward
launchDone ==
  /\ pc = "bridgeOp"
  /\ data.action \in {"start", "stop", "debug"}
  /\ \E remote \in LaunchRemote :
       \E digits \in digitsOf(remote) :
         /\ remoteRes' = remote
         /\ portDigits' = digits
         /\ logged' = logged \cup launchLog(remote, data.stopOnFailure)
         /\ launchOut' = launchResult(remote, data.stopOnFailure)
         /\ IF launchOut' = "err"
            THEN report("E_launch", calls, asRoot) /\ UNCHANGED fwdArgs
            ELSE IF data.action # "debug"
            THEN report("ok", calls, asRoot) /\ UNCHANGED fwdArgs
            ELSE IF debugStep(impl, launchOut') = "portForward"
            THEN /\ pc' = "portForward"
                 /\ calls' = Append(calls, "portForward")
                 /\ fwdArgs' = <<localPortOf(data), parseInt(digits)>>
                 /\ UNCHANGED <<cmdOutcome, result, doneCount>>
            ELSE /\ report(debugStep(impl, launchOut'), calls, asRoot)
                 /\ UNCHANGED fwdArgs
  /\ UNCHANGED <<impl, data, asRoot, rootOn, rootOff, fwdOut, browserOut>>
  /\ UNCHANGED fanVars
  /\ UNCHANGED <<opArgs, unit>>

portForwardDone ==
  /\ pc = "portForward"
  /\ \E ok \in BOOLEAN :
       /\ fwdOut' = IF ok THEN "ok" ELSE "fail"
       /\ IF afterPortForward(ok, data.browserCmd) = "fail"
          THEN report("E_portForward", calls, asRoot)
          ELSE IF afterPortForward(ok, data.browserCmd) = "runBrowser"
          THEN /\ pc' = "runBrowser"
               /\ calls' = Append(calls, "runBrowser")
               /\ UNCHANGED <<cmdOutcome, result, doneCount>>
          ELSE report("ok", calls, asRoot)
  /\ UNCHANGED <<impl, data, asRoot, rootOn, rootOff, launchOut, logged>>
  /\ UNCHANGED <<remoteRes, portDigits, fwdArgs, browserOut>>
  /\ UNCHANGED fanVars
  /\ UNCHANGED <<opArgs, unit>>

runBrowserDone ==
  /\ pc = "runBrowser"
  /\ \E ok \in BOOLEAN :
       /\ browserOut' = IF ok THEN "ok" ELSE "fail"
       /\ report(IF ok THEN "ok" ELSE "E_browser", calls, asRoot)
  /\ UNCHANGED <<impl, data, asRoot, rootOn, rootOff, launchOut, logged>>
  /\ UNCHANGED <<remoteRes, portDigits, fwdArgs, fwdOut>>
  /\ UNCHANGED fanVars
  /\ UNCHANGED <<opArgs, unit>>

\* ----------------------------------------------------------- specification
Next ==
  \/ tizenTask
  \/ tizenPrepareTask
  \/ rootOnDone
  \/ rootOffDone
  \/ metaDone
  \/ listDone
  \/ \E i \in 1..files : fileExistsDone(i)
  \/ \E i \in 1..files : pushRawDone(i)
  \/ \E i \in 1..files : chmodDone(i)
  \/ \E i \in 1..files : installOneDone(i)
  \/ aggregateSettled
  \/ uninstallDone
  \/ runScriptDone
  \/ launchDone
  \/ portForwardDone
  \/ runBrowserDone

Spec == Init /\ [][Next]_vars

\* Every remote operation and metadata fetch that was started eventually
\* calls back or settles its promise.  No step of a task can be undone or
\* repeated, so a step stays enabled until it is taken and weak fairness of
\* the next-state relation is fairness of every completion.
FairSpec == Spec /\ WF_vars(Next)

\* ------------------------------------------- library components on their own
\* Sequences over the alphabet S of length at most n
SeqsUpTo(S, n) == UNION {[1..k -> S] : k \in 0..n}

\* String.prototype.match with a plain phrase: the phrase occurs in the text.
\* A text is a sequence of phrases.
matches(text, phrase) == \E k \in 1..Len(text) : text[k] = phrase

\* paths handed to getDestination
LocalPaths == SeqsUpTo({Slash, "a"}, MaxPathLen)
RemoteDirs == SeqsUpTo({Slash, "t"}, MaxPathLen)

\* Bridge.getDestination called on its own
getDestinationCall ==
  /\ unit = NoUnit
  /\ \E localFile \in LocalPaths, remoteDir \in RemoteDirs :
       unit' = [comp |-> "getDestination", localFile |-> localFile,
                remoteDir |-> remoteDir,
                out |-> getDestination(localFile, remoteDir)]
  /\ UNCHANGED mainVars

\* the phrases Bridge.pushRaw looks for in the message of a failed push
KnownPushFailures == {"failed to copy", "cannot stat", "device not found"}

PushMessages == SeqsUpTo(KnownPushFailures \cup {"x"}, MaxOutputLen)

\* what the transport's push came back with, as Bridge.pushRaw sorts it
classifyPush(ok, message) ==
  IF ok THEN "ok"
  ELSE IF \E phrase \in KnownPushFailures : matches(message, phrase)
  THEN "fail_known"
  ELSE "fail_other"

\* the message of the error pushRaw throws
pushRawMessage(err, message) ==
  IF err = "E_couldNotPush" THEN <<"could not push file to device">>
  ELSE message

\* Bridge.pushRaw called on its own
pushRawCall ==
  /\ unit = NoUnit
  /\ \E ok \in BOOLEAN, message \in PushMessages :
       LET err == pushRaw(classifyPush(ok, message))
       IN  unit' = [comp |-> "pushRaw", ok |-> ok, message |-> message,
                    err |-> err,
                    errMessage |-> IF err = "none" THEN <<>>
                                   ELSE pushRawMessage(err, message),
                    value |-> "undefined"]
  /\ UNCHANGED mainVars

\* what the bridge tool printed
Stdouts ==
  SeqsUpTo({"command not found", "No such file or directory", "failed", "x"},
           MaxOutputLen)
Stderrs == SeqsUpTo({"failed", "x"}, MaxOutputLen)

\* faulty variant: stderr is not inspected
executeNoStderr(err, stdout, stderr) ==
  IF err
  THEN [status |-> "rejected", value |-> <<"process error">>]
  ELSE IF matches(stdout, "command not found")
          \/ matches(stdout, "No such file or directory")
  THEN [status |-> "rejected", value |-> stdout]
  ELSE [status |-> "resolved", value |-> stdout]

\* SdbWrapper.execute: the callback of exec(); value is the message of the
\* error it rejects with, or the stdout it resolves with
execute(err, stdout, stderr) ==
  IF err
  THEN [status |-> "rejected", value |-> <<"process error">>]
  ELSE IF matches(stdout, "command not found")
  THEN [status |-> "rejected", value |-> stdout]
  ELSE IF matches(stdout, "No such file or directory")
  THEN [status |-> "rejected", value |-> stdout]
  ELSE IF matches(stderr, "failed")
  THEN [status |-> "rejected", value |-> stderr]
  ELSE [status |-> "resolved", value |-> stdout]

\* SdbWrapper.execute called on its own
executeCall ==
  /\ unit = NoUnit
  /\ \E err \in BOOLEAN, stdout \in Stdouts, stderr \in Stderrs :
       unit' = [comp |-> "execute", err |-> err, stdout |-> stdout,
                stderr |-> stderr, out |-> execute(err, stdout, stderr)]
  /\ UNCHANGED mainVars

\* the config objects a Bridge may be constructed with: which collaborators
\* it carries; given = FALSE is a missing config
BridgeConfigs ==
  {c \in [given : BOOLEAN, sdbWrapper : BOOLEAN, fileLister : BOOLEAN,
          logger : BOOLEAN] :
     ~c.given => (~c.sdbWrapper /\ ~c.fileLister /\ ~c.logger)}

\* faulty variant: the fileLister is not checked
BridgeNoFileListerCheck(config) ==
  IF ~config.sdbWrapper
  THEN [thrown |-> "E_noSdbWrapper", created |-> FALSE, logger |-> "none"]
  ELSE [thrown |-> "none", created |-> TRUE,
        logger |-> IF config.logger THEN "given" ELSE "console"]

\* the Bridge constructor
Bridge(config) ==
  IF ~config.sdbWrapper
  THEN [thrown |-> "E_noSdbWrapper", created |-> FALSE, logger |-> "none"]
  ELSE IF ~config.fileLister
  THEN [thrown |-> "E_noFileLister", created |-> FALSE, logger |-> "none"]
  ELSE [thrown |-> "none", created |-> TRUE,
        logger |-> IF config.logger THEN "given" ELSE "console"]

\* new Bridge(config)
BridgeNew ==
  /\ unit = NoUnit
  /\ \E config \in BridgeConfigs :
       unit' = [comp |-> "Bridge", config |-> config, out |-> Bridge(config)]
  /\ UNCHANGED mainVars

\* the tizen-app.sh commands the Bridge runs, and their arguments
ScriptCommands == {"install", "uninstall", "start", "stop", "debug"}
ScriptArgs == {<<>>, <<"x">>, <<"x", "y">>}

\* faulty variant: the command is sent whether or not the path is set
runTizenAppScriptNoCheck(configured, command, args) ==
  [status |-> "pending", shell |-> <<<<"script", command>> \o args>>]

\* Bridge.runTizenAppScript up to its return: rejected at once when
\* tizenAppScriptPath is not set, otherwise one shell command
\* '<script> <command> [args...]' is sent
runTizenAppScript(configured, command, args) ==
  IF ~configured
  THEN [status |-> "rejected", shell |-> <<>>]
  ELSE [status |-> "pending", shell |-> <<<<"script", command>> \o args>>]

\* Bridge.runTizenAppScript called on its own, and what installOne,
\* uninstall and launch (both with stopOnFailure) make of its outcome
runTizenAppScriptCall ==
  /\ unit = NoUnit
  /\ \E configured \in BOOLEAN, command \in ScriptCommands,
        args \in ScriptArgs, remote \in {"fail", "clean"} :
       LET r == runTizenAppScript(configured, command, args)
           outcome == IF r.status = "rejected" THEN "fail" ELSE remote
       IN  unit' = [comp |-> "runTizenAppScript", configured |-> configured,
                    command |-> command, args |-> args, status |-> r.status,
                    shell |-> r.shell, outcome |-> outcome,
                    installOne |-> installOne(outcome),
                    uninstall |-> uninstallResult(outcome, TRUE),
                    launch |-> launchResult(outcome, TRUE)]
  /\ UNCHANGED mainVars

\* ------------------------------------------------ Bridge.listRemoteFiles
\* characters of the output of the remote ls; NL is '\n', CR is '\r'
LsChars == {"p", "q", "NL", "CR"}
LsOutputs == SeqsUpTo(LsChars, MaxLsLen)

\* stdout.replace(/\r/g, '')
removeCR(stdout) ==
  LET keep(c) == c # "CR" IN SelectSeq(stdout, keep)

\* stdout.replace(/^\n$/g, ''): only an output that is a single newline
\* is replaced
blankOut(stdout) == IF stdout = <<"NL">> THEN <<>> ELSE stdout

\* stdout.split('\n'): the pieces between the newlines, in order; the empty
\* string gives one empty piece
RECURSIVE split(_)
split(stdout) ==
  IF \E k \in 1..Len(stdout) : stdout[k] = "NL"
  THEN LET k == CHOOSE k \in 1..Len(stdout) :
                  stdout[k] = "NL" /\ \A j \in 1..(k - 1) : stdout[j] # "NL"
       IN  <<SubSeq(stdout, 1, k - 1)>>
             \o split(SubSeq(stdout, k + 1, Len(stdout)))
  ELSE <<stdout>>

\* the FileSpecs listRemoteFiles is given: a string, a list of strings, or
\* a pattern object with or without filter 'latest'
RemoteSpecs ==
  {[kind |-> "string", paths |-> <<f>>, filter |-> "none"] :
     f \in {"f1", "f2"}}
  \cup {[kind |-> "array", paths |-> fs, filter |-> "none"] :
          fs \in SeqsUpTo({"f1", "f2"}, MaxFiles)}
  \cup {[kind |-> "pattern", paths |-> <<>>, filter |-> f] :
          f \in {"none", "latest"}}

\* faulty variant: the filter is ignored
listRemoteFilesNoFilter(spec, ok, stdout) ==
  IF spec.kind \in {"string", "array"}
  THEN [status |-> "resolved", shell |-> <<>>, list |-> spec.paths]
  ELSE IF ~ok
  THEN [status |-> "rejected", shell |-> <<<<"ls -1 -c", "pattern">>>>,
        list |-> <<>>]
  ELSE [status |-> "resolved", shell |-> <<<<"ls -1 -c", "pattern">>>>,
        list |-> split(blankOut(removeCR(stdout)))]

\* Bridge.listRemoteFiles: ok and stdout are what the remote ls came back
\* with, when it is run
listRemoteFiles(spec, ok, stdout) ==
  IF spec.kind \in {"string", "array"}
  THEN [status |-> "resolved", shell |-> <<>>, list |-> spec.paths]
  ELSE IF ~ok
  THEN [status |-> "rejected", shell |-> <<<<"ls -1 -c", "pattern">>>>,
        list |-> <<>>]
  ELSE [status |-> "resolved", shell |-> <<<<"ls -1 -c", "pattern">>>>,
        list |-> IF spec.filter = "latest"
                 THEN <<split(blankOut(removeCR(stdout)))[1]>>
                 ELSE split(blankOut(removeCR(stdout)))]

\* Bridge.listRemoteFiles called on its own
listRemoteFilesCall ==
  /\ unit = NoUnit
  /\ \E spec \in RemoteSpecs, ok \in BOOLEAN, stdout \in LsOutputs :
       /\ spec.kind # "pattern" => (ok /\ stdout = <<>>)
       /\ ~ok => stdout = <<>>
       /\ unit' = [comp |-> "listRemoteFiles", spec |-> spec, ok |-> ok,
                   stdout |-> stdout,
                   out |-> listRemoteFiles(spec, ok, stdout)]
  /\ UNCHANGED mainVars

\* ------------------------------------------------------------- File Lister
\* local files a glob may match, and their modification times
GlobFiles == {"f1", "f2", "f3"}
Mtimes == [GlobFiles -> 1..3]

\* the orders in which a glob may enumerate its matches
Enumerations ==
  {fs \in SeqsUpTo(GlobFiles, 3) :
     \A i, j \in 1..Len(fs) : i # j => fs[i] # fs[j]}

Range(fs) == {fs[k] : k \in 1..Len(fs)}

\* faulty variant: sorted so that the oldest file is first
getLatestOldest(filePaths, mtime) ==
  IF filePaths = <<>> THEN {"undefined"}
  ELSE IF Len(filePaths) = 1 THEN {filePaths[1]}
  ELSE {f \in Range(filePaths) :
          \A g \in Range(filePaths) : mtime[f] <= mtime[g]}

\* fileLister.getLatest: the first element after sorting by descending
\* mtime; the sort leaves the order of files with equal mtime open, so the
\* result is any of the newest; filePaths[0] of an empty list is undefined
getLatest(filePaths, mtime) ==
  IF filePaths = <<>> THEN {"undefined"}
  ELSE IF Len(filePaths) = 1 THEN {filePaths[1]}
  ELSE {f \in Range(filePaths) :
          \A g \in Range(filePaths) : mtime[f] >= mtime[g]}

\* the FileSpecs fileLister.list is given; "invalid" is neither a string,
\* a list nor an object
LocalSpecs ==
  {[kind |-> "string", paths |-> <<"f1">>, filter |-> "none"],
   [kind |-> "array", paths |-> <<"f2", "f1">>, filter |-> "none"],
   [kind |-> "invalid", paths |-> <<>>, filter |-> "none"],
   [kind |-> "pattern", paths |-> <<>>, filter |-> "none"],
   [kind |-> "pattern", paths |-> <<>>, filter |-> "latest"]}

\* fileLister.list: the outcomes it may settle with; globOk and found are
\* what glob called back with
list(spec, globOk, found, mtime) ==
  IF spec.kind \in {"string", "array"}
  THEN {[status |-> "resolved", list |-> spec.paths]}
  ELSE IF spec.kind = "invalid" \/ ~globOk
  THEN {[status |-> "rejected", list |-> <<>>]}
  ELSE IF spec.filter = "latest"
  THEN {[status |-> "resolved", list |-> <<f>>] : f \in getLatest(found, mtime)}
  ELSE {[status |-> "resolved", list |-> found]}

\* fileLister.list called on its own
listCall ==
  /\ unit = NoUnit
  /\ \E spec \in LocalSpecs, globOk \in BOOLEAN, found \in Enumerations,
        mtime \in Mtimes :
       /\ spec.kind # "pattern" => (globOk /\ found = <<>>)
       /\ ~globOk => found = <<>>
       /\ found = <<>> => mtime = [f \in GlobFiles |-> 1]
       /\ \E out \in list(spec, globOk, found, mtime) :
            unit' = [comp |-> "list", spec |-> spec, globOk |-> globOk,
                     found |-> found, mtime |-> mtime, out |-> out]
  /\ UNCHANGED mainVars

\* ------------------------------------------------------------- TizenConfig
\* the config files a TizenConfig may wrap, and the metadata objects the
\* well-formed ones parse to
ConfigFiles == {"config.xml", "other.xml", "missing.xml", "broken.xml"}
Metas == {"metaOfConfig", "metaOfOther"}

\* what fs.readFileSync followed by the parse gives for a file: the
\* metadata of a well-formed file, the error of a missing file, or the
\* error thrown on the way to the metadata object of a malformed one
Contents == Metas \cup {"E_read", "E_parse"}

\* the files as they are when the object is created
InitialDisk ==
  [file \in ConfigFiles |->
     CASE file = "config.xml" -> "metaOfConfig"
       [] file = "other.xml" -> "metaOfOther"
       [] file = "missing.xml" -> "E_read"
       [] OTHER -> "E_parse"]

\* fs.readFileSync(this.configFile) and the parse, on the files as they are
readMeta(disk, file) == disk[file]

\* new TizenConfig(config): configFile defaults to 'config.xml'
TizenConfig(configFile) ==
  [comp |-> "TizenConfig",
   configFile |-> IF configFile = "absent" THEN "config.xml" ELSE configFile,
   configParsed |-> "null", log |-> <<>>, disk |-> InitialDisk]

\* faulty variant: the file is read on every call
getMetaNoCache(tc) ==
  [configParsed |-> IF readMeta(tc.disk, tc.configFile) \in Metas
                    THEN readMeta(tc.disk, tc.configFile)
                    ELSE tc.configParsed,
   read |-> tc.configFile,
   ret |-> readMeta(tc.disk, tc.configFile)]

\* faulty variant: the outcome of the read is stored before it is known to
\* be the metadata
getMetaCachesFailure(tc) ==
  IF tc.configParsed # "null"
  THEN [configParsed |-> tc.configParsed, read |-> "none",
        ret |-> tc.configParsed]
  ELSE [configParsed |-> readMeta(tc.disk, tc.configFile),
        read |-> tc.configFile,
        ret |-> readMeta(tc.disk, tc.configFile)]

\* TizenConfig.prototype.getMeta: the cache after the call, the file read
\* ("none" if none was) and the value returned or the error thrown
getMeta(tc) ==
  IF tc.configParsed # "null"
  THEN [configParsed |-> tc.configParsed, read |-> "none",
        ret |-> tc.configParsed]
  ELSE [configParsed |-> IF readMeta(tc.disk, tc.configFile) \in Metas
                         THEN readMeta(tc.disk, tc.configFile) ELSE "null",
        read |-> tc.configFile,
        ret |-> readMeta(tc.disk, tc.configFile)]

\* tizenConfig.create(config)
create ==
  /\ unit = NoUnit
  /\ \E configFile \in ConfigFiles \cup {"absent"} :
       unit' = TizenConfig(configFile)
  /\ UNCHANGED mainVars

\* a call of getMeta() on the object; the log keeps, per call, the
\* configFile at the time, the cache before and after the call, the file
\* read and the value returned
getMetaCall ==
  /\ unit.comp = "TizenConfig"
  /\ Len(unit.log) < MaxCalls
  /\ unit' = [unit EXCEPT
                !.configParsed = getMeta(unit).configParsed,
                !.log = Append(@, [configFile |-> unit.configFile,
                                   before |-> unit.configParsed,
                                   read |-> getMeta(unit).read,
                                   ret |-> getMeta(unit).ret,
                                   after |-> getMeta(unit).configParsed])]
  /\ UNCHANGED mainVars

\* the caller assigns the configFile property
setConfigFile ==
  /\ unit.comp = "TizenConfig"
  /\ \E file \in ConfigFiles \ {unit.configFile} :
       unit' = [unit EXCEPT !.configFile = file]
  /\ UNCHANGED mainVars

\* somebody writes a file that was missing or malformed, between two calls
writeConfigFile ==
  /\ unit.comp = "TizenConfig"
  /\ \E file \in {"missing.xml", "broken.xml"} :
       \E content \in Metas \cup {"E_parse"} :
         /\ content # unit.disk[file]
         /\ unit' = [unit EXCEPT !.disk[file] = content]
  /\ UNCHANGED mainVars

\* -------------------------------------------------------- SdbWrapper.push
\* the local files and remote paths SdbWrapper.push is called with
SdbLocalFiles == {"lf1", "lf2"}
SdbRemotePaths == {"rp1", "rp2"}

\* what fs.stat calls back with: no error, or the error of an absent file
FsStatOutcomes == {"ok", "ENOENT"}

\* faulty variant: the push subcommand is run whatever fs.stat reported
sdbPushAfterStatAlways(stat, localFile, remote) ==
  [phase |-> "exec", execs |-> <<<<"push", localFile, remote>>>>,
   status |-> "pending", value |-> <<>>]

\* the callback of fs.stat and the continuation of deferred.promise: an
\* error rejects the deferred, so the continuation that runs
\* this.execute('push ' + localFile + ' ' + remotePath) is skipped
sdbPushAfterStat(stat, localFile, remote) ==
  IF stat # "ok"
  THEN [phase |-> "settled", execs |-> <<>>, status |-> "rejected",
        value |-> <<stat>>]
  ELSE [phase |-> "exec", execs |-> <<<<"push", localFile, remote>>>>,
        status |-> "pending", value |-> <<>>]

\* SdbWrapper.push(localFile, remotePath) called: fs.stat is started
sdbPush ==
  /\ unit = NoUnit
  /\ \E localFile \in SdbLocalFiles, remote \in SdbRemotePaths :
       unit' = [comp |-> "SdbWrapper.push", localFile |-> localFile,
                remotePath |-> remote, phase |-> "stat", stat |-> "none",
                execs |-> <<>>, status |-> "pending", value |-> <<>>]
  /\ UNCHANGED mainVars

\* fs.stat called back
sdbPushStatDone ==
  /\ unit.comp = "SdbWrapper.push"
  /\ unit.phase = "stat"
  /\ \E stat \in FsStatOutcomes :
       LET r == sdbPushAfterStat(stat, unit.localFile, unit.remotePath)
       IN  unit' = [unit EXCEPT !.stat = stat, !.phase = r.phase,
                                !.execs = r.execs, !.status = r.status,
                                !.value = r.value]
  /\ UNCHANGED mainVars

\* the bridge tool run by execute() came back
sdbPushExecDone ==
  /\ unit.comp = "SdbWrapper.push"
  /\ unit.phase = "exec"
  /\ \E err \in BOOLEAN, stdout \in Stdouts, stderr \in Stderrs :
       unit' = [unit EXCEPT !.phase = "settled",
                            !.status = execute(err, stdout, stderr).status,
                            !.value = execute(err, stdout, stderr).value]
  /\ UNCHANGED mainVars

\* ------------------------------------------------------ Bridge.runBrowser
\* browser command templates, as pieces of text; "%URL%" is the placeholder
BrowserCmds == SeqsUpTo({"foo-browser", "%URL%"}, MaxTemplateLen)
DebugPorts == {8888, 9000}

\* Bridge.prototype.getDebugUrl
getDebugUrl(localPort) ==
  <<"http://localhost:", localPort, "/inspector.html?page=1">>

\* browserCmd.replace('%URL%', url): a string pattern replaces the first
\* occurrence only
replace(browserCmd, token, url) ==
  IF \E k \in 1..Len(browserCmd) : browserCmd[k] = token
  THEN [browserCmd EXCEPT ![FirstIndex(browserCmd, token)] = url]
  ELSE browserCmd

\* faulty variant: the launcher is called without testing that there is one
runBrowserNoCheck(configured, browserCmd, localPort) ==
  [phase |-> "launcher",
   launched |-> <<replace(browserCmd, "%URL%", getDebugUrl(localPort))>>,
   status |-> "pending", value |-> "none"]

\* Bridge.prototype.runBrowser up to its return: the calls of the
\* browserWrapper it made and the promise it returned
runBrowser(configured, browserCmd, localPort) ==
  IF configured
  THEN [phase |-> "launcher",
        launched |-> <<replace(browserCmd, "%URL%", getDebugUrl(localPort))>>,
        status |-> "pending", value |-> "none"]
  ELSE [phase |-> "settled", launched |-> <<>>, status |-> "rejected",
        value |-> "cannot run browser: no browserWrapper configured for Bridge"]

\* Bridge.runBrowser called on its own
runBrowserCall ==
  /\ unit = NoUnit
  /\ \E configured \in BOOLEAN, browserCmd \in BrowserCmds,
        localPort \in DebugPorts :
       LET r == runBrowser(configured, browserCmd, localPort)
       IN  unit' = [comp |-> "runBrowser", configured |-> configured,
                    browserCmd |-> browserCmd, localPort |-> localPort,
                    phase |-> r.phase, launched |-> r.launched,
                    status |-> r.status, value |-> r.value,
                    launcher |-> "none", written |-> <<>>]
  /\ UNCHANGED mainVars

\* the promise of the browserWrapper settled: the stdout is logged and
\* returned, an error is logged and thrown again
browserWrapperDone ==
  /\ unit.comp = "runBrowser"
  /\ unit.phase = "launcher"
  /\ \E out \in {"stdout", "E_launcher"} :
       unit' = [unit EXCEPT
                  !.phase = "settled",
                  !.launcher = out,
                  !.status = IF out = "stdout" THEN "resolved" ELSE "rejected",
                  !.value = out,
                  !.written = <<out>>]
  /\ UNCHANGED mainVars

\* ------------------------------------------------ specification, components
\* a request that starts no task
NoRequest ==
  [action |-> "none", asRoot |-> "absent", fields |-> {},
   stopOnFailure |-> FALSE, browserCmd |-> FALSE, overwrite |-> "absent",
   chmod |-> FALSE, localPort |-> 0, args |-> <<>>]

\* no task is running; a component is about to be exercised
LibInit ==
  /\ impl = "callback"
  /\ data = NoRequest
  /\ pc = "init"
  /\ asRoot = FALSE
  /\ calls = <<>>
  /\ rootOn = "none"
  /\ cmdOutcome = "none"
  /\ rootOff = "none"
  /\ result = "pending"
  /\ doneCount = 0
  /\ files = 0
  /\ one = <<>>
  /\ startCount = <<>>
  /\ completed = 0
  /\ eachCb = 0
  /\ deferred = "pending"
  /\ launchOut = "none"
  /\ logged = {}
  /\ fsList = <<>>
  /\ device = {}
  /\ sub = <<>>
  /\ remoteRes = "none"
  /\ portDigits = <<>>
  /\ fwdArgs = <<>>
  /\ fwdOut = "none"
  /\ browserOut = "none"
  /\ opArgs = <<>>
  /\ unit = NoUnit

LibNext ==
  \/ getDestinationCall
  \/ pushRawCall
  \/ executeCall
  \/ BridgeNew
  \/ runTizenAppScriptCall
  \/ listRemoteFilesCall
  \/ listCall
  \/ create
  \/ getMetaCall
  \/ setConfigFile
  \/ writeConfigFile
  \/ sdbPush
  \/ sdbPushStatDone
  \/ sdbPushExecDone
  \/ runBrowserCall
  \/ browserWrapperDone

LibSpec == LibInit /\ [][LibNext]_vars

\* ------------------------------------------------------ properties: helpers
Called(x) == \E i \in 1..Len(calls) : calls[i] = x

\* the task went into the root bracket: root(true) was called
Bracketed ==
  /\ pc # "init"
  /\ asRoot
  /\ data.action # "none"
  /\ selectCmd(impl, data.action) # "null"

CmdFailed == cmdOutcome \notin {"none", "ok"}

\* the errors the caller can inspect in the result it received
Delivered == IF result \in {"pending", "ok"} THEN {} ELSE {result}

\* async.each of Bridge.push / Bridge.install has been started
FanStarted(op) ==
  /\ data.action = op
  /\ Called(op)
  /\ pc # "list"
  /\ cmdOutcome # "E_list"

\* ------------------------------------------------------------------ claims
\* C1: in a root-bracketed task of a known action, once root(true) has
\* succeeded the command is invoked exactly once, and root(false) is called
\* exactly once, after the command reported its outcome, be it success or
\* failure; it is never called before and never twice.
C1_RootBracketCleanup ==
  (data.action \in KnownActions /\ Bracketed /\ rootOn = "ok") =>
    /\ Count(calls, "cmd") = 1
    /\ Count(calls, "root(false)") = (IF cmdOutcome = "none" THEN 0 ELSE 1)
    /\ Count(calls, "cmdDone") = (IF cmdOutcome = "none" THEN 0 ELSE 1)
    /\ Called("root(false)") =>
         /\ FirstIndex(calls, "cmd") < FirstIndex(calls, "cmdDone")
         /\ FirstIndex(calls, "cmdDone") < FirstIndex(calls, "root(false)")
    /\ pc = "done" => Count(calls, "root(false)") = 1

C1_Witness ==
  /\ data.action \in KnownActions /\ Bracketed /\ rootOn = "ok"
  /\ pc = "done"
  /\ CmdFailed
  /\ Count(calls, "root(false)") = 1

C3_RootBracketResult ==
  (Bracketed /\ pc = "done") =>
    ((result # "ok") <=> (rootOn = "fail" \/ CmdFailed \/ rootOff = "fail"))

C3_Witness ==
  /\ Bracketed /\ pc = "done"
  /\ rootOn = "ok" /\ cmdOutcome = "ok" /\ rootOff = "fail"
  /\ result # "ok"

\* C4 (as claimed): when root(true) succeeded and root(false) failed, the
\* failure of root(false) is part of the result the caller receives, and so
\* is the command's failure when the command failed too.
C4_RootOffFailureSurfaced ==
  (Bracketed /\ pc = "done" /\ rootOn = "ok" /\ rootOff = "fail") =>
    /\ "E_rootOff" \in Delivered
    /\ CmdFailed => cmdOutcome \in Delivered

\* C5: an install task calls root(true) first whatever the caller's asRoot;
\* Bridge.install is only ever invoked after a successful root(true), and
\* root(false) is called after it.
C5_InstallUnderRoot ==
  (data.action = "install" /\ pc # "init") =>
    /\ Len(calls) > 0 /\ calls[1] = "root(true)"
    /\ Called("install") =>
         /\ rootOn = "ok"
         /\ FirstIndex(calls, "root(true)") < FirstIndex(calls, "install")
    /\ (Called("install") /\ pc = "done") =>
         /\ Count(calls, "root(false)") = 1
         /\ LastIndex(calls, "install") < FirstIndex(calls, "root(false)")

C5_Witness ==
  /\ data.action = "install" /\ data.asRoot # "true"
  /\ pc = "done"
  /\ Called("install")
  /\ Called("root(false)")

\* C6 (as claimed): a request lacking a field its action requires fails
\* with the configuration error without any Bridge operation, root(true)
\* and root(false) included, having been invoked, for every asRoot.
C6_ConfigErrorBeforeRemote ==
  (ConfigMissing(data) /\ pc # "init") =>
    /\ \A i \in 1..Len(calls) : calls[i] \notin BridgeOps
    /\ pc = "done"
    /\ result \in ConfigErrors

\* C7 (as claimed): a missing action, or any action other than the seven
\* known ones, fails at once with a validation error; no Bridge operation
\* and no metadata fetch is performed.
C7_ActionValidation ==
  (data.action \notin KnownActions /\ pc # "init") =>
    /\ pc = "done"
    /\ result \in ValidationErrors
    /\ calls = <<>>

C9_InstallFanOut ==
  /\ (data.action = "install" /\ pc \in {"init", "rootOn", "list"}) =>
       (files = 0 /\ deferred = "pending")
  /\ FanStarted("install") =>
       /\ \A i \in 1..files : startCount[i] = 1
       /\ (\E i \in 1..files : one[i] = "fail") => (deferred = "rejected")
       /\ (\A i \in 1..files : one[i] = "ok") => (deferred = "fulfilled")
       /\ (deferred = "rejected") =>
            (cmdOutcome \in {"none", "E_installAgg"}
               /\ "error: installOne" \in logged)
       /\ (cmdOutcome = "ok") => (\A i \in 1..files : one[i] = "ok")

C9_Witness ==
  /\ FanStarted("install")
  /\ files = 2
  /\ one[1] = "ok" /\ one[2] = "fail"
  /\ deferred = "rejected"
  /\ cmdOutcome = "E_installAgg"

\* C10: when the remote listing is empty, Bridge.install starts no
\* installOne, logs the warning 'no packages to install' and resolves.
C10_EmptyInstallList ==
  (FanStarted("install") /\ files = 0) =>
    /\ startCount = <<>>
    /\ deferred = "fulfilled"
    /\ logged = {"warn: no packages to install"}
    /\ cmdOutcome \in {"none", "ok"}

C10_Witness ==
  /\ FanStarted("install") /\ files = 0
  /\ cmdOutcome = "ok"
  /\ pc = "done" /\ result = "ok"

\* the remote call of uninstall / launch failed, or its output matched the
\* failure pattern
RemoteFailure == remoteRes \in {"fail", "match"}

\* C11: Bridge.uninstall treats a failed remote call and a successful call
\* whose output matches 'not installed|failed' alike: it rejects when
\* stopOnFailure is true, and resolves after a warning when it is false; with
\* non-matching output it resolves for both values of stopOnFailure.
C11_UninstallStopOnFailure ==
  (data.action = "uninstall" /\ remoteRes # "none") =>
    /\ (RemoteFailure /\ data.stopOnFailure) => cmdOutcome = "E_uninstall"
    /\ (RemoteFailure /\ ~data.stopOnFailure) =>
         /\ cmdOutcome = "ok"
         /\ "warn: could not uninstall package" \in logged
    /\ ~RemoteFailure => cmdOutcome = "ok"

C11_Witness ==
  /\ data.action = "uninstall"
  /\ remoteRes = "match"
  /\ data.stopOnFailure
  /\ cmdOutcome = "E_uninstall"

\* C12: Bridge.launch, for start, stop and debug, treats a failed remote call
\* and a successful call whose output matches 'running|does not exist|failed'
\* alike: it rejects when stopOnFailure is true, and resolves with no value
\* after a warning when it is false; on genuine success it resolves with the
\* stdout of the remote call, unchanged.
C12_LaunchStopOnFailure ==
  (data.action \in {"start", "stop", "debug"} /\ remoteRes # "none") =>
    /\ (RemoteFailure /\ data.stopOnFailure) =>
         launchOut = "err" /\ cmdOutcome = "E_launch"
    /\ (RemoteFailure /\ ~data.stopOnFailure) =>
         /\ launchOut = "undefined"
         /\ "warn: could not launch; continuing anyway" \in logged
    /\ ~RemoteFailure => launchOut = remoteRes

C12_Witness ==
  /\ data.action = "debug"
  /\ remoteRes = "port"
  /\ launchOut = "port"
  /\ Called("portForward")

\* C13: in a debug task, whenever Bridge.launch completed without error: if
\* its result carries 'PORT <digits>', portForward is called with the
\* request's local port (8888 by default) and that integer; if it carries no
\* such token, the task fails with 'no remote port available for debugging'
\* and portForward is never called.
C13_DebugPortExtraction ==
  (data.action = "debug" /\ launchOut \notin {"none", "err"}) =>
    IF launchOut = "port"
    THEN /\ Called("portForward")
         /\ fwdArgs = <<localPortOf(data), parseInt(portDigits)>>
    ELSE /\ cmdOutcome = "E_noPort"
         /\ ~Called("portForward")

C15_DebugToleratedFailure ==
  (/\ data.action = "debug"
   /\ ~data.stopOnFailure
   /\ RemoteFailure
   /\ launchOut = "undefined"
   /\ cmdOutcome # "none") => cmdOutcome = "ok"

\* the names of the Bridge calls file i's pushOne / installOne made, in order
OpNames(i) == [k \in 1..Len(sub[i].ops) |-> sub[i].ops[k][1]]

\* file i's pushOne / installOne made the Bridge call name
OneCalled(i, name) == \E k \in 1..Len(sub[i].ops) : sub[i].ops[k][1] = name

Settled(i) == sub[i].phase = "settled"

PushNoOverwrite == data.action = "push" /\ ~overwriteOf(data)

\* C16: Bridge.installOne(remoteFile) calls runTizenAppScript('install',
\* [remoteFile]); a failure of that call propagates; a successful call whose
\* output contains 'key[end] val[fail]' fails with 'installation failed';
\* otherwise installOne succeeds with no value.
C16_InstallOneToken ==
  data.action = "install" =>
    \A i \in 1..files :
      /\ sub[i].ops = <<<<"runTizenAppScript install", fsList[i]>>>>
      /\ sub[i].remote # "none" =>
           /\ Settled(i)
           /\ sub[i].remote = "fail" => sub[i].err = "E_remote"
           /\ sub[i].remote = "token" => sub[i].err = "E_installFailed"
           /\ sub[i].remote = "clean" =>
                sub[i].err = "none" /\ sub[i].value = "undefined"

C16_Witness ==
  /\ data.action = "install"
  /\ \E i \in 1..files :
       /\ sub[i].remote = "token"
       /\ sub[i].err = "E_installFailed"
       /\ one[i] = "fail"

\* C17: Bridge.fileExists returns true when the remote stat succeeds, false
\* whenever the failure message contains 'No such file or directory' (be it
\* the whole message or part of the command output), and fails with the
\* original error for every other failure.
C17_FileExistsMatch ==
  \A i \in 1..files :
    sub[i].stat # "none" =>
      /\ sub[i].stat = "ok" => sub[i].exists = "true"
      /\ sub[i].stat \in {"nsf_exact", "nsf_whole"} => sub[i].exists = "false"
      /\ sub[i].stat = "fail_other" => sub[i].exists = "error"

C19_PushFailsIfExists ==
  (/\ PushNoOverwrite
   /\ \E i \in 1..files : sub[i].stat = "ok"
   /\ cmdOutcome # "none") => CmdFailed

\* C20: pushOne with overwrite=true never calls fileExists and always calls
\* pushRaw on getDestination(localFile, remoteDir); in both overwrite modes
\* chmod is called only after pushRaw on that same destination succeeded and
\* only when a chmod spec was supplied; a failure of pushRaw or of chmod
\* fails pushOne with that error.
C20_PushOneOverwrite ==
  data.action = "push" =>
    \A i \in 1..files :
      /\ overwriteOf(data) =>
           /\ ~OneCalled(i, "fileExists")
           /\ sub[i].ops[1] = <<"pushRaw", getDestination(fsList[i], RemoteDir)>>
      /\ \A k \in 1..Len(sub[i].ops) :
           sub[i].ops[k][1] = "chmod" =>
             /\ k > 1
             /\ sub[i].ops[k - 1] = <<"pushRaw", sub[i].ops[k][2]>>
             /\ sub[i].ops[k][2] = getDestination(fsList[i], RemoteDir)
             /\ sub[i].raw = "ok"
             /\ data.chmod
      /\ sub[i].raw \in {"fail_known", "fail_other"} =>
           /\ Settled(i)
           /\ sub[i].err = pushRaw(sub[i].raw)
           /\ ~OneCalled(i, "chmod")
      /\ sub[i].chm = "fail" => Settled(i) /\ sub[i].err = "E_chmod"

C20_Witness ==
  /\ data.action = "push"
  /\ overwriteOf(data)
  /\ data.chmod
  /\ \E i \in 1..files :
       /\ OpNames(i) = <<"pushRaw", "chmod">>
       /\ sub[i].chm = "fail"
       /\ sub[i].err = "E_chmod"

C30_RequestNotMutated == [][data' = data]_vars

C30_Witness ==
  /\ data.action = "script"
  /\ data.args = <<"x">>
  /\ Called("runScript")
  /\ opArgs = <<"remoteScript", <<"packageName", "id", "x">>>>
  /\ pc = "done"

\* the text contains the phrase
Contains(text, phrase) == phrase \in {text[k] : k \in 1..Len(text)}

\* the lines put together again, with a newline between two lines
RECURSIVE join(_)
join(lines) ==
  IF lines = <<>> THEN <<>>
  ELSE IF Len(lines) = 1 THEN lines[1]
  ELSE lines[1] \o <<"NL">> \o join(Tail(lines))

\* C21: Bridge.pushRaw replaces a transport failure whose message contains
\* 'failed to copy', 'cannot stat' or 'device not found' by the error 'could
\* not push file to device', propagates every other failure unchanged, and
\* resolves with no value when the transport push succeeds.
C21_PushRawClassification ==
  unit.comp = "pushRaw" =>
    IF unit.ok
    THEN unit.err = "none" /\ unit.value = "undefined"
    ELSE IF \/ Contains(unit.message, "failed to copy")
            \/ Contains(unit.message, "cannot stat")
            \/ Contains(unit.message, "device not found")
    THEN /\ unit.err = "E_couldNotPush"
         /\ unit.errMessage = <<"could not push file to device">>
    ELSE /\ unit.err = "E_transport"
         /\ unit.errMessage = unit.message

C21_Witness ==
  /\ unit.comp = "pushRaw"
  /\ ~unit.ok
  /\ unit.message = <<"x", "cannot stat">>
  /\ unit.errMessage = <<"could not push file to device">>

\* C22: Bridge.runTizenAppScript fails without sending any remote command
\* when tizenAppScriptPath is not set, and so do installOne, uninstall with
\* stopOnFailure and launch with stopOnFailure; when it is set, exactly one
\* shell command '<script> <command> [args...]' is sent per call.
C22_ScriptPathRequired ==
  unit.comp = "runTizenAppScript" =>
    IF unit.configured
    THEN unit.shell = <<<<"script", unit.command>> \o unit.args>>
    ELSE /\ unit.status = "rejected"
         /\ unit.shell = <<>>
         /\ unit.installOne # "none"
         /\ unit.uninstall = "E_uninstall"
         /\ unit.launch = "err"

C22_Witness ==
  /\ unit.comp = "runTizenAppScript"
  /\ ~unit.configured
  /\ unit.command = "install"
  /\ unit.args = <<"x">>
  /\ unit.shell = <<>>
  /\ unit.installOne = "E_remote"

C24_ListRemoteFiles ==
  unit.comp = "listRemoteFiles" =>
    IF unit.spec.kind \in {"string", "array"}
    THEN /\ unit.out.status = "resolved"
         /\ unit.out.list = unit.spec.paths
         /\ unit.out.shell = <<>>
    ELSE /\ unit.out.shell = <<<<"ls -1 -c", "pattern">>>>
         /\ ~unit.ok => unit.out.status = "rejected"
         /\ unit.ok =>
              LET text == blankOut(removeCR(unit.stdout))
                  first == IF Contains(text, "NL")
                           THEN SubSeq(text, 1, FirstIndex(text, "NL") - 1)
                           ELSE text
              IN  /\ unit.out.status = "resolved"
                  /\ \A k \in 1..Len(unit.out.list) :
                       ~Contains(unit.out.list[k], "NL")
                  /\ unit.spec.filter = "none" => join(unit.out.list) = text
                  /\ unit.spec.filter = "latest" => unit.out.list = <<first>>

C24_Witness ==
  /\ unit.comp = "listRemoteFiles"
  /\ unit.spec.kind = "pattern"
  /\ unit.spec.filter = "latest"
  /\ unit.stdout = <<"q", "NL", "p">>
  /\ unit.out.list = <<<<"q">>>>

\* C25: for a pattern FileSpec with filter latest the File Lister produces
\* exactly one path, and that path is a match of the glob with the highest
\* modification time among all matches, whatever the order in which the
\* matches are enumerated.
C25_LatestLocalFile ==
  (/\ unit.comp = "list"
   /\ unit.spec.kind = "pattern"
   /\ unit.spec.filter = "latest"
   /\ unit.globOk) =>
    /\ unit.out.status = "resolved"
    /\ Len(unit.out.list) = 1
    /\ unit.out.list[1] \in Range(unit.found)
    /\ \A g \in Range(unit.found) :
         unit.mtime[unit.out.list[1]] >= unit.mtime[g]

\* C26: after the first successful getMeta() on a TizenConfig object every
\* later getMeta() returns the same metadata and reads no file, whatever is
\* assigned to configFile in between.
C26_MetaCache ==
  unit.comp = "TizenConfig" =>
    \A i, j \in 1..Len(unit.log) :
      (i < j /\ unit.log[i].ret \in Metas) =>
        /\ unit.log[j].ret = unit.log[i].ret
        /\ unit.log[j].read = "none"

C26_Witness ==
  /\ unit.comp = "TizenConfig"
  /\ Len(unit.log) = 3
  /\ unit.log[1].configFile = "config.xml"
  /\ unit.log[1].ret = "metaOfConfig"
  /\ unit.log[2].configFile = "other.xml"
  /\ unit.log[3].configFile = "missing.xml"
  /\ unit.log[3].ret = "metaOfConfig"

\* C27: constructing a Bridge without sdbWrapper or without fileLister
\* throws and yields no instance; with both, construction succeeds, and a
\* missing logger is replaced by the console-based default.
C27_BridgeConstruction ==
  unit.comp = "Bridge" =>
    IF unit.config.sdbWrapper /\ unit.config.fileLister
    THEN /\ unit.out.created
         /\ unit.out.thrown = "none"
         /\ unit.out.logger = IF unit.config.logger THEN "given" ELSE "console"
    ELSE /\ ~unit.out.created
         /\ unit.out.thrown # "none"

C27_Witness ==
  /\ unit.comp = "Bridge"
  /\ unit.config.sdbWrapper
  /\ ~unit.config.fileLister
  /\ unit.out.thrown = "E_noFileLister"
  /\ ~unit.out.created

\* C28: SdbWrapper.execute fails if and only if the process reported an
\* error, or stdout matches 'command not found', or stdout matches 'No such
\* file or directory', or stderr matches 'failed'; in every other case it
\* resolves with the stdout of the command.
C28_ExecuteClassification ==
  unit.comp = "execute" =>
    /\ unit.out.status = "rejected" <=>
         \/ unit.err
         \/ Contains(unit.stdout, "command not found")
         \/ Contains(unit.stdout, "No such file or directory")
         \/ Contains(unit.stderr, "failed")
    /\ unit.out.status # "rejected" =>
         unit.out.status = "resolved" /\ unit.out.value = unit.stdout

C28_Witness ==
  /\ unit.comp = "execute"
  /\ ~unit.err
  /\ unit.stdout = <<"failed">>
  /\ unit.stderr = <<"x", "failed">>
  /\ unit.out.status = "rejected"

\* the Bridge operations the actions uninstall, script, start, stop and
\* debug are about
MetaOps == {"uninstall", "runScript", "launch", "portForward", "runBrowser"}

\* the action of the request fetches the metadata before its operation
MetaAction ==
  /\ data.action \in {"uninstall", "script", "start", "stop", "debug"}
  /\ ~ConfigMissing(data)

Fetches == Count(calls, "getMeta")

\* the command of the request got past its own validation
CommandRan == Called("cmd") /\ ~ConfigMissing(data)

\* C32 (as stated): push, install and tizenPrepareTask never fetch the
\* metadata, and a completed request of any other recognised action has
\* fetched it exactly once.
C32_FetchExactlyOnce ==
  /\ data.action \in {"push", "install"} => Fetches = 0
  /\ (data.action \in {"uninstall", "script", "start", "stop", "debug"}
      /\ pc = "done") => Fetches = 1

\* C32 (amended): push, install and tizenPrepareTask never fetch the
\* metadata; no request fetches it more than once; a request of uninstall,
\* script, start, stop or debug whose command was applied and passed its
\* own validation has fetched it exactly once, and one that failed before
\* (root(true) failed, or script without remoteScript) has not fetched it.
C32_LazyMetadata ==
  /\ data.action \in {"push", "install"} => Fetches = 0
  /\ Called("tizenPrepareTask") => Fetches = 0
  /\ Fetches <= 1
  /\ Called("getMeta") => MetaAction
  /\ (MetaAction /\ CommandRan) => Fetches = 1
  /\ (MetaAction /\ ~CommandRan) => Fetches = 0
  /\ (data.action = "script" /\ ConfigMissing(data)) => Fetches = 0

C32_Witness ==
  /\ data.action = "debug"
  /\ asRoot
  /\ Called("runBrowser")
  /\ Fetches = 1
  /\ pc = "done"
  /\ result = "ok"

\* tizenPrepareTask pushed the script without a fetch
C32_PrepareWitness ==
  /\ Called("tizenPrepareTask")
  /\ Called("push")
  /\ Fetches = 0
  /\ pc = "done"
  /\ result = "ok"

\* the output of the remote ls is made of line ends only
BlankOnly(stdout) ==
  \A k \in 1..Len(stdout) : stdout[k] \in {"NL", "CR"}

\* C33: for every output of the remote 'ls -1 -c' the list returned by
\* Bridge.listRemoteFiles has no empty entry, and an output made of line
\* ends only (or empty) gives the empty list.
C33_NoBlankEntry ==
  (unit.comp = "listRemoteFiles" /\ unit.spec.kind = "pattern" /\ unit.ok) =>
    /\ \A k \in 1..Len(unit.out.list) : unit.out.list[k] # <<>>
    /\ BlankOnly(unit.stdout) => unit.out.list = <<>>

\* C34: SdbWrapper.push runs the push subcommand only after fs.stat of the
\* local file has succeeded, runs it once, with the local file and the
\* remote path, and when the local file is absent it fails with the error
\* of fs.stat without running any bridge-tool command.
C34_PushStatsFirst ==
  unit.comp = "SdbWrapper.push" =>
    /\ unit.execs # <<>> =>
         /\ unit.stat = "ok"
         /\ unit.execs = <<<<"push", unit.localFile, unit.remotePath>>>>
    /\ unit.stat = "none" => (unit.execs = <<>> /\ unit.status = "pending")
    /\ unit.stat = "ENOENT" =>
         /\ unit.execs = <<>>
         /\ unit.status = "rejected"
         /\ unit.value = <<"ENOENT">>
    /\ unit.status = "resolved" => Len(unit.execs) = 1

C34_Witness ==
  /\ unit.comp = "SdbWrapper.push"
  /\ unit.stat = "ENOENT"
  /\ unit.phase = "settled"
  /\ unit.status = "rejected"
  /\ unit.execs = <<>>

\* the push subcommand ran after a successful stat
C34_PushedWitness ==
  /\ unit.comp = "SdbWrapper.push"
  /\ unit.stat = "ok"
  /\ unit.status = "resolved"
  /\ unit.execs = <<<<"push", "lf1", "rp2">>>>

\* C35: Bridge.runBrowser without a browserWrapper fails with the
\* configuration error and calls no launcher; with one it calls the launcher
\* exactly once, with the template whose (first) '%URL%' is replaced by
\* 'http://localhost:<localPort>/inspector.html?page=1' and whose other
\* pieces are unchanged, resolves with the launcher's output, and fails with
\* the launcher's own error when the launcher fails.
C35_RunBrowser ==
  unit.comp = "runBrowser" =>
    IF ~unit.configured
    THEN /\ unit.launched = <<>>
         /\ unit.status = "rejected"
         /\ unit.value =
              "cannot run browser: no browserWrapper configured for Bridge"
    ELSE /\ Len(unit.launched) = 1
         /\ Len(unit.launched[1]) = Len(unit.browserCmd)
         /\ \A k \in 1..Len(unit.browserCmd) :
              IF /\ unit.browserCmd[k] = "%URL%"
                 /\ \A j \in 1..(k - 1) : unit.browserCmd[j] # "%URL%"
              THEN unit.launched[1][k] =
                     <<"http://localhost:", unit.localPort,
                       "/inspector.html?page=1">>
              ELSE unit.launched[1][k] = unit.browserCmd[k]
         /\ unit.launcher = "none" => unit.status = "pending"
         /\ unit.launcher = "stdout" =>
              (unit.status = "resolved" /\ unit.value = "stdout")
         /\ unit.launcher = "E_launcher" =>
              (unit.status = "rejected" /\ unit.value = "E_launcher")

C35_Witness ==
  /\ unit.comp = "runBrowser"
  /\ unit.configured
  /\ unit.browserCmd = <<"foo-browser", "%URL%">>
  /\ unit.localPort = 9000
  /\ unit.launched = <<<<"foo-browser", <<"http://localhost:", 9000,
                                          "/inspector.html?page=1">>>>>>
  /\ unit.launcher = "E_launcher"
  /\ unit.status = "rejected"

\* no launcher configured: the configuration error, no call
C35_UnconfiguredWitness ==
  /\ unit.comp = "runBrowser"
  /\ ~unit.configured
  /\ unit.launched = <<>>
  /\ unit.status = "rejected"

\* the pushOne / installOne of file i was started and has not settled
InFlight(i) == startCount[i] > 0 /\ sub[i].phase # "settled"

\* C36: in an install task over several remote files root(false) is never
\* called while an installOne of the task is in flight, and the aggregate
\* result of Bridge.install / Bridge.push is handed to the orchestrator
\* only after every per-file operation has completed.
C36_NoRootOffUnderRunningWork ==
  /\ (data.action = "install" /\ Called("root(false)")) =>
       \A i \in 1..files : ~InFlight(i)
  /\ (data.action \in {"push", "install"} /\ cmdOutcome # "none") =>
       \A i \in 1..files : ~InFlight(i)

\* C37: in a push with overwrite false no pushRaw writes to a destination
\* that exists on the device at the moment of the write, two local files
\* with the same basename (hence the same destination) included.
C37_NoOverwriteUnderConcurrency ==
  PushNoOverwrite => \A i \in 1..files : sub[i].wrote # "over"

\* C38: provided every Bridge operation and metadata fetch that is started
\* eventually completes, the caller's completion of every tizenTask request
\* is eventually signalled, it is never signalled twice, and a task whose
\* root(true) succeeded does not stay or end without root(false) called.
C38_CompletesExactlyOnce ==
  /\ <>(pc = "done" /\ doneCount = 1)
  /\ [](doneCount <= 1)
  /\ (rootOn = "ok") ~> Called("root(false)")

\* C39: a getMeta() that fails leaves the cache empty, so the next getMeta()
\* reads the backing file again (and succeeds if the file is then well
\* formed); the cache is set only by a call that read and parsed the file
\* with success, to what that call returned, and is never changed afterwards.
C39_FailureCachesNothing ==
  unit.comp = "TizenConfig" =>
    /\ unit.configParsed =
         IF unit.log = <<>> THEN "null" ELSE unit.log[Len(unit.log)].after
    /\ \A i \in 1..Len(unit.log) :
         LET c == unit.log[i]
         IN  /\ c.ret \notin Metas => (c.before = "null" /\ c.after = "null")
             /\ c.before = "null" =>
                  /\ c.read = c.configFile
                  /\ c.ret \in Metas => c.after = c.ret
             /\ c.before # "null" => c.after = c.before
             /\ i > 1 => c.before = unit.log[i - 1].after
             /\ (i > 1 /\ unit.log[i - 1].ret \notin Metas) =>
                  c.read = c.configFile

C39_Witness ==
  /\ unit.comp = "TizenConfig"
  /\ Len(unit.log) = 3
  /\ \A i \in 1..3 : unit.log[i].configFile = "missing.xml"
  /\ unit.log[1].ret = "E_read"
  /\ unit.log[2].ret = "E_parse"
  /\ unit.log[2].after = "null"
  /\ unit.log[3].read = "missing.xml"
  /\ unit.log[3].ret = "metaOfOther"
  /\ unit.configParsed = "metaOfOther"

====
